---- MODULE Spec2Model ----
(***************************************************************************)
(* Model of sci-fi.py: the crawl of the three award indexes, the winner    *)
(* extraction of a year page, the title-keyed aggregation and the          *)
(* grouping by year done by save_to_yaml.                                  *)
(*                                                                         *)
(* Python strings that the code takes apart (URLs, anchor texts) are       *)
(* sequences of one-character strings.  Python dicts, which iterate in     *)
(* insertion order, are sequences of entries with a key field.             *)
(***************************************************************************)
EXTENDS Integers, Sequences, FiniteSets, TLC

VARIABLES site, unlisted, pc, session, awardIdx, yearLinks, yearBooks,
          books, output, writes, transportError, strayFetch, yearsSeen,
          tied, indexed, listed, folded

vars == <<site, unlisted, pc, session, awardIdx, yearLinks, yearBooks,
          books, output, writes, transportError, strayFetch, yearsSeen,
          tied, indexed, listed, folded>>

(***************************************************************************)
(* Bounds of the inputs.                                                   *)
(***************************************************************************)
\* anchors on an award index page
MaxLinks == 2
\* year pages that the index pages of the site list, all awards together
MaxPages == 3
\* winner-marked li elements on a year page, over its three category lists
MaxItems == 2

(***************************************************************************)
(* Configuration.                                                          *)
(***************************************************************************)
BASE_URL == <<"h","t","t","p",":","/","/","w","w","w",".","s","f","a","d","b",".","c","o","m">>

\* AWARDS.items(), in the order of the dict literal
AWARDS == << [name |-> "Hugo",   path |-> <<"/","H">>],
             [name |-> "Nebula", path |-> <<"/","N">>],
             [name |-> "Locus",  path |-> <<"/","L">>] >>

category_names == <<"Novel", "Sf Novel", "Fantasy Novel">>

(***************************************************************************)
(* Strings.                                                                *)
(***************************************************************************)
Digits == {"0","1","2","3","4","5","6","7","8","9"}

DigitVal(c) ==
    CASE c = "0" -> 0 [] c = "1" -> 1 [] c = "2" -> 2 [] c = "3" -> 3
      [] c = "4" -> 4 [] c = "5" -> 5 [] c = "6" -> 6 [] c = "7" -> 7
      [] c = "8" -> 8 [] c = "9" -> 9

\* str.isdigit(): non-empty and digits only
IsDigit(s) == Len(s) > 0 /\ \A i \in 1..Len(s) : s[i] \in Digits

\* s.split('_')[-1]: what follows the last underscore, the whole of s if none
SplitLast(s) ==
    LET us == {i \in 1..Len(s) : s[i] = "_"}
        k  == IF us = {} THEN 0 ELSE CHOOSE i \in us : \A j \in us : j <= i
    IN  SubSeq(s, k + 1, Len(s))

RECURSIVE IntOf(_)
\* the value of a digit string
IntOf(s) == IF s = <<>> THEN 0
            ELSE 10 * IntOf(SubSeq(s, 1, Len(s) - 1)) + DigitVal(s[Len(s)])

\* int(year): over the alphabet of the modelled paths (letters, digits, '/',
\* '_', ':', '.') int() succeeds exactly on the digit strings
IntParse(s) == IF IsDigit(s) THEN [ok |-> TRUE, val |-> IntOf(s)]
               ELSE [ok |-> FALSE, val |-> 0]

(***************************************************************************)
(* Dicts in insertion order, keyed by title.                               *)
(***************************************************************************)
Keys(d) == {d[i].title : i \in 1..Len(d)}

Pos(d, k) == CHOOSE i \in 1..Len(d) : d[i].title = k

\* d[k] = v
DictSet(d, k, v) == IF k \in Keys(d) THEN [d EXCEPT ![Pos(d, k)] = v]
                    ELSE Append(d, v)

Member(x, s) == \E i \in 1..Len(s) : s[i] = x

(***************************************************************************)
(* Pages.                                                                  *)
(***************************************************************************)
\* Python's None where a text is expected
None == "None"

\* Python's None where a string taken apart by the code is expected: a
\* sequence that is no sequence of characters
NoneStr == <<"None">>

RECURSIVE SeqsUpTo(_, _)
\* the sequences over S of length at most n
SeqsUpTo(S, n) ==
    IF n = 0 THEN {<<>>}
    ELSE LET shorter == SeqsUpTo(S, n - 1)
         IN  shorter \cup {Append(s, x) : s \in {t \in shorter : Len(t) = n - 1}, x \in S}

\* Two kinds of site are crawled.  A "plain" site has regular year pages of
\* at most one winner, over three titles and three years; an "irregular"
\* site has year pages with ties of one title, missing elements and
\* nominees, over two years.
Sites == {"plain", "irregular"}

\* The href values of the index anchors.
P1953 == <<"H","_","A","_","1","9","5","3">>
P1966 == <<"H","_","A","_","1","9","6","6">>
PNoYear == <<"H","_","A">>
YearPaths(s) == IF s = "plain" THEN {P1953, P1966, PNoYear} ELSE {P1953, PNoYear}

\* An anchor of an index page: its href attribute (NoneStr if absent) and
\* its .string (NoneStr if it has no single text child).
Anchors(s) ==
    {[href |-> h, string |-> <<"1","9">>] : h \in YearPaths(s)}
    \cup {[href |-> P1953, string |-> <<"x","9">>]}
    \cup IF s = "plain" THEN {}
         ELSE {[href |-> NoneStr, string |-> <<"1","9">>],
               [href |-> P1953, string |-> NoneStr]}

PlainIndexPages == SeqsUpTo(Anchors("plain"), MaxLinks)
IrregularIndexPages == SeqsUpTo(Anchors("irregular"), MaxLinks)
IndexPages(s) == IF s = "plain" THEN PlainIndexPages ELSE IrregularIndexPages

\* An li of a category list: whether it holds a span.winner, and the text of
\* the first b and of the first a that follow the span (None if there is none).
Nominee == [winner |-> FALSE, b |-> "T1", a |-> "A1"]
Winner(b, a) == [winner |-> TRUE, b |-> b, a |-> a]
WinnerItems(s) ==
    IF s = "plain"
    THEN {Winner("T1", "A1"), Winner("T2", "A1"), Winner(None, "A1")}
    ELSE {Winner("T1", "A1")}

\* What a year page holds for one category label: whether a div.category with
\* that string exists, whether an ol/ul sibling follows it, and the li's of it.
\* A year page is the triple of these for the labels of category_names.
NoDiv == [div |-> FALSE, list |-> FALSE, lis |-> <<>>]
NoList == [div |-> TRUE, list |-> FALSE, lis |-> <<>>]
ListOf(lis) == [div |-> TRUE, list |-> TRUE, lis |-> lis]

\* The winners of a page, each with the number of its category, in page order
Placements(s, n) ==
    {p \in SeqsUpTo((1..3) \X WinnerItems(s), n) :
        \A i \in 1..(Len(p) - 1) : p[i][1] <= p[i + 1][1]}

\* The page that holds the winners of p and nothing else
PageOf(p) ==
    [c \in 1..3 |->
        LET mine == SelectSeq(p, LAMBDA x : x[1] = c)
        IN  IF mine = <<>> THEN NoDiv
            ELSE ListOf([i \in 1..Len(mine) |-> mine[i][2]])]

\* Pages with a category that has no list, an empty list, nominees only, a
\* winner among nominees, a winner that no b follows and one that no a follows
OddPages ==
    { <<NoList, NoDiv, NoDiv>>,
      <<NoDiv, ListOf(<<>>), NoDiv>>,
      <<NoDiv, NoDiv, ListOf(<<Nominee>>)>>,
      <<ListOf(<<Nominee, Winner("T1", "A1"), Nominee>>), NoDiv, NoDiv>>,
      <<NoDiv, ListOf(<<Winner(None, "A1")>>), NoDiv>>,
      <<NoDiv, NoDiv, ListOf(<<Winner("T1", None)>>)>> }

PlainYearPages == {PageOf(p) : p \in Placements("plain", 1)}
IrregularYearPages == OddPages \cup {PageOf(p) : p \in Placements("irregular", MaxItems)}
YearPages(s) == IF s = "plain" THEN PlainYearPages ELSE IrregularYearPages

(***************************************************************************)
(* get_novel_winners, lines 45-77.                                         *)
(***************************************************************************)
\* year_url = f'{BASE_URL}/{year_path}'
YearUrl(year_path) == BASE_URL \o <<"/">> \o year_path

\* ParseYear without the except clause of lines 66-68: the ValueError leaves
ParseYearNoExcept(year_url) ==
    LET r == IntParse(SplitLast(year_url))
    IN  [raised |-> ~r.ok, val |-> r.val]

\* Lines 63-68: the last '_' segment of the URL as an integer, 0 when int()
\* raises ValueError.  raised tells whether an exception leaves the block.
ParseYear(year_url) ==
    LET r == IntParse(SplitLast(year_url))
    IN  [raised |-> FALSE, val |-> IF r.ok THEN r.val ELSE 0]

\* Line 61
TitleOf(li) == IF li.b # None THEN li.b ELSE "Title not found"

\* Line 62
AuthorOf(li) == IF li.a # None THEN li.a ELSE "Author not found"

\* Lines 69-73: the update of books for one winner
AddWinner(bks, title, author, year, award_name) ==
    IF title \in Keys(bks)
    THEN LET i == Pos(bks, title)
         IN  [bks EXCEPT ![i].awards = Append(@, award_name)]
    ELSE DictSet(bks, title,
                 [year |-> year, title |-> title, author |-> author,
                  awards |-> <<award_name>>])

RECURSIVE WinnersOfList(_, _, _, _)
\* Lines 58-74: the loop over the li's of one list.  acc is [raised, books].
WinnersOfList(acc, lis, year_url, award_name) ==
    IF lis = <<>> \/ acc.raised THEN acc
    ELSE LET li == Head(lis)
         IN  IF ~li.winner
             THEN WinnersOfList(acc, Tail(lis), year_url, award_name)
             ELSE LET y == ParseYear(year_url)
                  IN  IF y.raised
                      THEN [raised |-> TRUE, books |-> acc.books]
                      ELSE WinnersOfList(
                             [raised |-> FALSE,
                              books |-> AddWinner(acc.books, TitleOf(li), AuthorOf(li),
                                                  y.val, award_name)],
                             Tail(lis), year_url, award_name)

RECURSIVE WinnersOfCategories(_, _, _, _, _)
\* Lines 53-57: the loop over category_names, from the n-th on
WinnersOfCategories(acc, page, n, year_url, award_name) ==
    IF n > Len(category_names) \/ acc.raised THEN acc
    ELSE LET category == page[n]
             next == IF category.div /\ category.list
                     THEN WinnersOfList(acc, category.lis, year_url, award_name)
                     ELSE acc
         IN  WinnersOfCategories(next, page, n + 1, year_url, award_name)

\* The mapping returned for a fetched page, or raised
get_novel_winners(page, year_path, award_name) ==
    WinnersOfCategories([raised |-> FALSE, books |-> <<>>], page, 1,
                        YearUrl(year_path), award_name)

(***************************************************************************)
(* get_year_links, lines 33-38.                                            *)
(***************************************************************************)
\* find_all('a', href=True, string=lambda x: x and x.isdigit())
IsYearLink(a) == a.href # NoneStr /\ a.string # NoneStr /\ IsDigit(a.string)

get_year_links(page) == SelectSeq(page, IsYearLink)

(***************************************************************************)
(* The aggregation of process_awards, lines 122-128.                       *)
(***************************************************************************)
\* UnionAwards without the test of line 125
UnionAwardsAll(awards, incoming) == awards \o incoming

RECURSIVE UnionAwards(_, _)
\* Lines 124-126: append each incoming award that is not yet in the list
UnionAwards(awards, incoming) ==
    IF incoming = <<>> THEN awards
    ELSE UnionAwards(IF Member(Head(incoming), awards) THEN awards
                     ELSE Append(awards, Head(incoming)),
                     Tail(incoming))

\* FoldBook without the test of line 123, as a list of records would do
FoldBookAppend(bks, book_data) == Append(bks, book_data)

\* FoldBook with line 128 alone: the last batch wins
FoldBookOverwrite(bks, book_data) == DictSet(bks, book_data.title, book_data)

\* Lines 123-128 for one item of year_books
FoldBook(bks, book_data) ==
    IF book_data.title \in Keys(bks)
    THEN LET i == Pos(bks, book_data.title)
         IN  [bks EXCEPT ![i].awards = UnionAwards(@, book_data.awards)]
    ELSE DictSet(bks, book_data.title, book_data)

RECURSIVE FoldBatch(_, _)
\* Lines 122-128: the loop over year_books.items()
FoldBatch(bks, year_books) ==
    IF year_books = <<>> THEN bks
    ELSE FoldBatch(FoldBook(bks, Head(year_books)), Tail(year_books))

(***************************************************************************)
(* save_to_yaml, lines 80-99.                                              *)
(***************************************************************************)
YearKeys(o) == {o[i].year : i \in 1..Len(o)}

YearPos(o, y) == CHOOSE i \in 1..Len(o) : o[i].year = y

\* Organize with line 85 run for every book: the list of the year starts anew
OrganizeReset(organized_books, book) ==
    LET year == book.year
        entry == [title |-> book.title, author |-> book.author,
                  awards |-> book.awards, year |-> year]
        o == IF year \notin YearKeys(organized_books)
             THEN Append(organized_books, [year |-> year, books |-> <<>>])
             ELSE [organized_books EXCEPT ![YearPos(organized_books, year)].books = <<>>]
    IN  [o EXCEPT ![YearPos(o, year)].books = Append(@, entry)]

\* Lines 83-91: the entry of one book appended to the list of its year
Organize(organized_books, book) ==
    LET year == book.year
        entry == [title |-> book.title, author |-> book.author,
                  awards |-> book.awards, year |-> year]
        o == IF year \notin YearKeys(organized_books)
             THEN Append(organized_books, [year |-> year, books |-> <<>>])
             ELSE organized_books
    IN  [o EXCEPT ![YearPos(o, year)].books = Append(@, entry)]

RECURSIVE OrganizeAll(_, _)
\* Lines 81-91: the loop over books.values()
OrganizeAll(organized_books, bks) ==
    IF bks = <<>> THEN organized_books
    ELSE OrganizeAll(Organize(organized_books, Head(bks)), Tail(bks))

\* save_to_yaml over sorted(organized_books.items())
save_to_yaml_sorted(bks) ==
    LET organized_books == SortSeq(OrganizeAll(<<>>, bks), LAMBDA a, b : a.year < b.year)
    IN  [i \in 1..Len(organized_books) |->
            [year |-> organized_books[i].year, books |-> organized_books[i].books]]

\* Lines 93-96: one single-key mapping {year: books} per year, in the
\* iteration order of organized_books; this is what yaml.dump writes
save_to_yaml(bks) ==
    LET organized_books == OrganizeAll(<<>>, bks)
    IN  [i \in 1..Len(organized_books) |->
            [year |-> organized_books[i].year, books |-> organized_books[i].books]]

(***************************************************************************)
(* The crawl: main and process_awards, lines 113-136.                      *)
(*                                                                         *)
(* pc is the position of the single task:                                  *)
(*   "start"   before main opens the session                               *)
(*   "index"   about to fetch the index of award awardIdx                  *)
(*   "year"    about to fetch the page of the first of yearLinks           *)
(*   "fold"    year_books returned, about to run the loop of line 122      *)
(*   "save"    both loops exhausted, about to call save_to_yaml            *)
(*   "saved"   process_awards returned, the async with block is left       *)
(*   "raising" an exception travels up to the async with block             *)
(*   "done" / "failed"  main returned / main raised                        *)
(* yearLinks holds the year links that the loop of line 118 has yet to     *)
(* visit, the current one first.  Locals that are dead at a position       *)
(* (year_books outside the fold) are held at the empty sequence.           *)
(* site and unlisted are the environment: the kind of site crawled and the *)
(* number of year pages that its index pages have yet to list.             *)
(* transportError, strayFetch, yearsSeen, tied, indexed, listed and folded *)
(* are history variables: they record what happened and no action reads    *)
(* them.  tied holds the titles that the page behind year_books            *)
(* winner-marks under two category labels; indexed, listed and folded      *)
(* count the index pages fetched, the year links they returned and the     *)
(* year pages folded.                                                      *)
(***************************************************************************)
Init ==
    /\ site \in Sites
    /\ unlisted = MaxPages
    /\ pc = "start"
    /\ session = "unopened"
    /\ awardIdx = 0
    /\ yearLinks = <<>>
    /\ yearBooks = <<>>
    /\ books = <<>>
    /\ output = <<>>
    /\ writes = 0
    /\ transportError = FALSE
    /\ strayFetch = FALSE
    /\ yearsSeen = <<>>
    /\ tied = {}
    /\ indexed = 0
    /\ listed = 0
    /\ folded = 0

\* NextAward with line 130 inside the outer loop: the file is written after
\* the first award
NextAwardSavesEarly(a) ==
    IF a < 1
    THEN [pc |-> "index", awardIdx |-> a + 1, yearLinks |-> <<>>]
    ELSE [pc |-> "save", awardIdx |-> a, yearLinks |-> <<>>]

\* Line 115: the next iteration of the outer loop, or line 130 after the last
NextAward(a) ==
    IF a < Len(AWARDS)
    THEN [pc |-> "index", awardIdx |-> a + 1, yearLinks |-> <<>>]
    ELSE [pc |-> "save", awardIdx |-> a, yearLinks |-> <<>>]

\* Line 118: the next iteration of the inner loop over the links left, or the
\* end of it
NextYear(a, links) ==
    IF links # <<>>
    THEN [pc |-> "year", awardIdx |-> a, yearLinks |-> links]
    ELSE NextAward(a)

Goto(pos) ==
    /\ pc' = pos.pc
    /\ awardIdx' = pos.awardIdx
    /\ yearLinks' = pos.yearLinks

\* An exception leaves process_awards: its frame, with books, is dropped
Unwind ==
    /\ pc' = "raising"
    /\ awardIdx' = 0
    /\ yearLinks' = <<>>
    /\ yearBooks' = <<>>
    /\ books' = <<>>
    /\ tied' = {}

\* SessionAfterExit without the async with: close() is reached on return only
SessionLeakOnError(by_exception) == IF by_exception THEN "open" ELSE "closed"

\* Line 135, __aexit__ of the ClientSession: the session is closed whether
\* the block is left normally or by an exception
SessionAfterExit(by_exception) == "closed"

\* history: the titles that a page winner-marks under two category labels
TiedTitles(page) ==
    LET Marked(c) == IF page[c].div /\ page[c].list
                     THEN {TitleOf(page[c].lis[i]) :
                             i \in {k \in 1..Len(page[c].lis) : page[c].lis[k].winner}}
                     ELSE {}
    IN  UNION {Marked(c) \cap Marked(d) : <<c, d>> \in {x \in (1..3) \X (1..3) : x[1] < x[2]}}

\* Lines 134-135: the session is opened and process_awards starts with an
\* empty books
OpenSession ==
    /\ pc = "start"
    /\ session' = "open"
    /\ books' = <<>>
    /\ Goto(NextAward(0))
    /\ UNCHANGED <<site, unlisted, yearBooks, output, writes, transportError,
                   strayFetch, yearsSeen, tied, indexed, listed, folded>>

\* Lines 117 and 33-38: the index page of the award is fetched and its year
\* links are selected
GetYearLinks(page) ==
    /\ pc = "index"
    /\ LET year_links == get_year_links(page)
       IN  /\ Len(year_links) <= unlisted
           /\ unlisted' = unlisted - Len(year_links)
           /\ listed' = listed + Len(year_links)
           /\ Goto(NextYear(awardIdx, year_links))
    /\ strayFetch' = (strayFetch \/ session # "open")
    /\ indexed' = indexed + 1
    /\ UNCHANGED <<site, session, yearBooks, books, output, writes,
                   transportError, yearsSeen, tied, folded>>

\* Lines 119-121 and 45-77: the year page is fetched and its winners are
\* extracted into year_books
GetNovelWinners(page) ==
    /\ pc = "year"
    /\ strayFetch' = (strayFetch \/ session # "open")
    /\ LET year_path == Head(yearLinks).href
           r == get_novel_winners(page, year_path, AWARDS[awardIdx].name)
       IN  IF r.raised
           THEN Unwind
           ELSE /\ pc' = "fold"
                /\ yearBooks' = r.books
                /\ yearLinks' = Tail(yearLinks)
                /\ tied' = TiedTitles(page)
                /\ UNCHANGED <<awardIdx, books>>
    /\ UNCHANGED <<site, unlisted, session, output, writes, transportError,
                   yearsSeen, indexed, listed, folded>>

\* Lines 28-30: session.get or response.text raises; nothing catches it up to
\* the async with block of main
FetchFails ==
    /\ pc \in {"index", "year"}
    /\ strayFetch' = (strayFetch \/ session # "open")
    /\ transportError' = TRUE
    /\ Unwind
    /\ UNCHANGED <<site, unlisted, session, output, writes, yearsSeen,
                   indexed, listed, folded>>

\* history: the years of the batches folded so far, in the order in which a
\* batch of that year was first folded
SeenYears(seen, year_books) ==
    IF year_books = <<>> \/ Member(year_books[1].year, seen) THEN seen
    ELSE Append(seen, year_books[1].year)

\* Lines 122-128: year_books is folded into books
Fold ==
    /\ pc = "fold"
    /\ books' = FoldBatch(books, yearBooks)
    /\ yearBooks' = <<>>
    /\ yearsSeen' = SeenYears(yearsSeen, yearBooks)
    /\ tied' = {}
    /\ folded' = folded + 1
    /\ Goto(NextYear(awardIdx, yearLinks))
    /\ UNCHANGED <<site, unlisted, session, output, writes, transportError,
                   strayFetch, indexed, listed>>

\* Lines 130 and 80-99: the output file is written
SaveToYaml ==
    /\ pc = "save"
    /\ output' = save_to_yaml(books)
    /\ writes' = writes + 1
    /\ pc' = "saved"
    /\ UNCHANGED <<site, unlisted, session, awardIdx, yearLinks,
                   yearBooks, books, transportError, strayFetch, yearsSeen,
                   tied, indexed, listed, folded>>

\* Line 135: the async with block is left and main returns or raises
CloseSession ==
    /\ pc \in {"saved", "raising"}
    /\ session' = SessionAfterExit(pc = "raising")
    /\ pc' = IF pc = "raising" THEN "failed" ELSE "done"
    /\ UNCHANGED <<site, unlisted, awardIdx, yearLinks, yearBooks,
                   books, output, writes, transportError, strayFetch, yearsSeen,
                   tied, indexed, listed, folded>>

FetchIndex == \E page \in IndexPages(site) : GetYearLinks(page)

FetchYear == \E page \in YearPages(site) : GetNovelWinners(page)

Next ==
    \/ OpenSession
    \/ FetchIndex
    \/ FetchYear
    \/ FetchFails
    \/ Fold
    \/ SaveToYaml
    \/ CloseSession

Spec == Init /\ [][Next]_vars

\* The crawl of a plain site that lists one year page more
InitLonger ==
    /\ site = "plain"
    /\ unlisted = MaxPages + 1
    /\ pc = "start"
    /\ session = "unopened"
    /\ awardIdx = 0
    /\ yearLinks = <<>>
    /\ yearBooks = <<>>
    /\ books = <<>>
    /\ output = <<>>
    /\ writes = 0
    /\ transportError = FALSE
    /\ strayFetch = FALSE
    /\ yearsSeen = <<>>
    /\ tied = {}
    /\ indexed = 0
    /\ listed = 0
    /\ folded = 0

SpecLonger == InitLonger /\ [][Next]_vars

\* The crawl of an irregular site
InitIrregular == Init /\ site = "irregular"

\* Every await of the one task returns, with a page or with an error, and
\* the task then runs on.  The site is an irregular one: its pages hold every
\* irregularity of the plain site's pages (an index page without year links,
\* a year page without category, a path without year) and those of their own.
FairSpec == InitIrregular /\ [][Next]_vars /\ WF_vars(Next)

(***************************************************************************)
(* Properties.                                                             *)
(***************************************************************************)
Count(x, s) == Cardinality({i \in 1..Len(s) : s[i] = x})

NoDup(s) == \A i, j \in 1..Len(s) : i # j => s[i] # s[j]

UniqueTitles(d) == \A i, j \in 1..Len(d) : i # j => d[i].title # d[j].title

IndexOf(s, x) == CHOOSE i \in 1..Len(s) : s[i] = x

IsPrefix(s, t) == Len(s) <= Len(t) /\ \A i \in 1..Len(s) : t[i] = s[i]

RECURSIVE Dedupe(_)
\* s without the repetitions of its elements
Dedupe(s) ==
    IF s = <<>> THEN <<>>
    ELSE LET front == Dedupe(SubSeq(s, 1, Len(s) - 1))
         IN  IF Member(s[Len(s)], front) THEN front ELSE Append(front, s[Len(s)])

YearsOf(d) == [i \in 1..Len(d) |-> d[i].year]

TitlesOf(d) == [i \in 1..Len(d) |-> d[i].title]

AwardsOf(d) == [i \in 1..Len(d) |-> <<d[i].title, d[i].awards>>]

\* C1: the mapping returned for a year page holds, for a title that the page
\* winner-marks under two category labels, one record whose awards list
\* contains the award name once.
C1_TieYieldsAwardOnce ==
    pc = "fold" =>
        \A t \in tied :
            /\ Cardinality({i \in 1..Len(yearBooks) : yearBooks[i].title = t}) = 1
            /\ \A i \in 1..Len(yearBooks) :
                  yearBooks[i].title = t =>
                      Count(AWARDS[awardIdx].name, yearBooks[i].awards) = 1

\* C2: no two records of the aggregated collection, which is what
\* save_to_yaml is handed, have the same title.
C2_TitleIsKey == UniqueTitles(books)

\* a single record that gathered two awards from pages of two years, about to
\* be saved
C2_Witness ==
    /\ pc = "save"
    /\ Len(books) = 1
    /\ Len(yearsSeen) >= 2
    /\ Member("Hugo", books[1].awards)
    /\ Member("Nebula", books[1].awards)

\* C3: in every state of the crawl and in the document written, no award
\* name occurs twice in the awards list of a record.
C3_AwardsSetLike ==
    /\ \A i \in 1..Len(books) : NoDup(books[i].awards)
    /\ \A g \in 1..Len(output) :
          \A k \in 1..Len(output[g].books) : NoDup(output[g].books[k].awards)

\* C4: a fold leaves the year, title and author of every record that exists
\* unchanged and lets its awards list only grow at the end; a title that the
\* batch brings in gets the year and author the batch reports.  Hence a
\* record carries the year and author of the first batch that held its title.
C4_FirstSeenWins ==
    [][pc = "fold" =>
          /\ Len(books') >= Len(books)
          /\ \A i \in 1..Len(books) :
                /\ books'[i].title = books[i].title
                /\ books'[i].year = books[i].year
                /\ books'[i].author = books[i].author
                /\ IsPrefix(books[i].awards, books'[i].awards)
          /\ \A j \in 1..Len(yearBooks) :
                /\ yearBooks[j].title \in Keys(books')
                /\ yearBooks[j].title \notin Keys(books) =>
                      LET r == books'[Pos(books', yearBooks[j].title)]
                      IN  r.year = yearBooks[j].year /\ r.author = yearBooks[j].author
      ]_vars

\* a batch about to be folded reports a title of the collection with another
\* year and another author
C4_Witness ==
    /\ pc = "fold"
    /\ \E i \in 1..Len(books), j \in 1..Len(yearBooks) :
          /\ books[i].title = yearBooks[j].title
          /\ books[i].year # yearBooks[j].year
          /\ books[i].author # yearBooks[j].author

\* C5: folding the batch at hand into the collection twice gives every title
\* the awards list that folding it once gives.
C5_FoldIdempotent ==
    pc = "fold" =>
        AwardsOf(FoldBatch(FoldBatch(books, yearBooks), yearBooks))
            = AwardsOf(FoldBatch(books, yearBooks))

\* a batch about to be folded brings an award that a record of the collection
\* does not have yet
C5_Witness ==
    /\ pc = "fold"
    /\ \E i \in 1..Len(books), j \in 1..Len(yearBooks) :
          /\ books[i].title = yearBooks[j].title
          /\ \E k \in 1..Len(yearBooks[j].awards) :
                ~Member(yearBooks[j].awards[k], books[i].awards)

\* C6: the file is written at most once, and only when the index of every
\* award was fetched and every year page listed was fetched and folded; once
\* a fetch failed nothing is written.
C6_WrittenOnceAtEnd ==
    /\ writes <= 1
    /\ writes = 0 => output = <<>>
    /\ writes = 1 =>
          /\ pc \in {"saved", "done"}
          /\ indexed = Len(AWARDS)
          /\ folded = listed
          /\ yearLinks = <<>>
          /\ ~transportError
    /\ transportError => writes = 0

\* a fetch failed after a year page was folded, and main has raised
C6_Witness ==
    /\ pc = "failed"
    /\ transportError
    /\ folded >= 1
    /\ writes = 0

\* the groups of doc are the group-by(year) of bks
IsGroupBy(bks, doc) ==
    /\ \A g, h \in 1..Len(doc) : g # h => doc[g].year # doc[h].year
    /\ \A g \in 1..Len(doc) :
          /\ doc[g].books # <<>>
          /\ doc[g].books = SelectSeq(bks, LAMBDA b : b.year = doc[g].year)
          /\ \A k \in 1..Len(doc[g].books) : doc[g].books[k].year = doc[g].year
    /\ \A i \in 1..Len(bks) : \E g \in 1..Len(doc) : doc[g].year = bks[i].year

\* C7: what save_to_yaml makes of a collection is its group-by(year): one
\* group per year, every record in the one group of its year and nowhere
\* else, nothing added or lost; so is the document written.
C7_GroupByYear ==
    /\ IsGroupBy(books, save_to_yaml(books))
    /\ writes = 1 => IsGroupBy(books, output)

\* a document of three years is written
C7_Witness ==
    /\ pc = "done"
    /\ Len(books) >= 3
    /\ Len(output) = 3

\* the records of each group are in the order of the collection
GroupsInCollectionOrder ==
    \A g \in 1..Len(output) :
        TitlesOf(output[g].books)
            = TitlesOf(SelectSeq(books, LAMBDA b : b.year = output[g].year))

\* C8 as stated: the year groups of the document are in the order in which
\* their years were first met by the aggregation, and the records of a group
\* in the order in which their titles were inserted.
C8_EncounterOrder ==
    writes = 1 =>
        /\ \A g, h \in 1..Len(output) :
              g < h => IndexOf(yearsSeen, output[g].year) < IndexOf(yearsSeen, output[h].year)
        /\ GroupsInCollectionOrder

\* C8 as amended: the year groups of the document are in the order in which
\* a record of that year was first inserted into the collection, and the
\* records of a group in the order in which their titles were inserted; the
\* collection keeps the titles, with their years, in the order of insertion.
C8_InsertionOrder ==
    /\ [](writes = 1 =>
            /\ YearsOf(output) = Dedupe(YearsOf(books))
            /\ GroupsInCollectionOrder)
    /\ [][pc = "fold" =>
            /\ IsPrefix(TitlesOf(books), TitlesOf(books'))
            /\ IsPrefix(YearsOf(books), YearsOf(books'))]_vars

\* a document is written whose year groups are not in the order in which the
\* years were met
C8_Witness ==
    /\ writes = 1
    /\ \E g, h \in 1..Len(output) :
          /\ g < h
          /\ IndexOf(yearsSeen, output[g].year) > IndexOf(yearsSeen, output[h].year)

\* C9: unless a fetch fails, no exception leaves the crawl and main returns
\* with the file written once.
C9_CrawlCompletes ==
    /\ [](pc \in {"raising", "failed"} => transportError)
    /\ <>(transportError \/ (pc = "done" /\ writes = 1))

\* main has returned after a page gave a winner with no b under a path with
\* no year
C9_Witness ==
    /\ pc = "done"
    /\ writes = 1
    /\ ~transportError
    /\ \E i \in 1..Len(books) :
          books[i].title = "Title not found" /\ books[i].year = 0

\* C10: when main has returned or raised the session is closed, and every
\* fetch is issued while the session is open.
C10_SessionReleased ==
    /\ pc \in {"done", "failed"} => session = "closed"
    /\ pc \in {"index", "year"} => session = "open"
    /\ ~strayFetch

\* main has raised after a fetch that followed the first index page failed
C10_Witness ==
    /\ pc = "failed"
    /\ indexed >= 1
    /\ session = "closed"

====
